---- MODULE Spec2Model ----
(***************************************************************************)
(* A model of the stubby crate (src/src/lib.rs): the fn_name! name         *)
(* resolver, the StubbyState stub registry and the stub! / stub_if_found!  *)
(* call-site macros, under the three build configurations the crate can    *)
(* be compiled in.                                                         *)
(*                                                                         *)
(* Strings are sequences of one-character strings, so that the trimming    *)
(* done by fn_name! is computed character by character as the code does.   *)
(***************************************************************************)
EXTENDS Integers, Sequences, FiniteSets, TLC

VARIABLES build, regs, count, last, latest, cloned, steps, nm

vars == <<build, regs, count, last, latest, cloned, steps, nm>>

\* Bounds of the model.
MaxSteps == 3
MaxDepth == 2
MaxArgs == 2

-----------------------------------------------------------------------------
(* Text the compiler's std::any::type_name yields.                         *)

ClosureSeg == <<":", ":", "{", "{", "c", "l", "o", "s", "u", "r", "e", "}", "}">>
MarkerSeg == <<":", ":", "f">>

TyI32 == <<"i", "3", "2">>
TyBool == <<"b", "o", "o", "l">>
TyVecI32 == <<"a", "l", "l", "o", "c", ":", ":", "v", "e", "c", ":", ":",
              "V", "e", "c", "<", "i", "3", "2", ">">>

PathSize == <<"w", ":", ":", "s", "i", "z", "e">>
PathConv == <<"w", ":", ":", "c", "o", "n", "v">>
PathF == <<"t", ":", ":", "f">>

TypeArgs == {TyI32, TyBool, TyVecI32}

RECURSIVE JoinArgs(_)
JoinArgs(targs) ==
    IF Len(targs) = 0 THEN <<>>
    ELSE IF Len(targs) = 1 THEN targs[1]
    ELSE targs[1] \o <<",", " ">> \o JoinArgs(Tail(targs))

\* type_name of the function item `path::<targs>` handed to fn_name!($fn).
type_name_of_fn(path, targs) ==
    IF Len(targs) = 0 THEN path
    ELSE path \o <<"<">> \o JoinArgs(targs) \o <<">">>

RECURSIVE Closures(_)
Closures(depth) ==
    IF depth = 0 THEN <<>> ELSE ClosureSeg \o Closures(depth - 1)

\* type_name of the marker `fn f() {}` that fn_name!() defines at a call site
\* nested `depth` closures (or async bodies) deep inside the callable `path`.
type_name_of_marker(path, depth) ==
    path \o Closures(depth) \o MarkerSeg

-----------------------------------------------------------------------------
(* fn_name!                                                                *)

EndsWith(s, suffix) ==
    /\ Len(s) >= Len(suffix)
    /\ SubSeq(s, Len(s) - Len(suffix) + 1, Len(s)) = suffix

\* str::trim_end_matches with a string pattern: strips every trailing repeat.
RECURSIVE trim_end_matches(_, _)
trim_end_matches(s, pat) ==
    IF EndsWith(s, pat)
    THEN trim_end_matches(SubSeq(s, 1, Len(s) - Len(pat)), pat)
    ELSE s

\* str::trim_end_matches with the stateful closure of the $fn arm: walking
\* from the end, a '<' sets `done` and is trimmed; any other character is
\* trimmed while `done` is still false, and stops the walk afterwards.
RECURSIVE trim_generic(_, _)
trim_generic(s, done) ==
    IF Len(s) = 0 THEN s
    ELSE LET c == s[Len(s)]
             front == SubSeq(s, 1, Len(s) - 1)
         IN  IF c = "<" THEN trim_generic(front, TRUE)
             ELSE IF ~done THEN trim_generic(front, FALSE)
             ELSE s

\* A mutant of fn_name_implicit: the marker suffix stripped, the trailing
\* closure segments left in place.
fn_name_implicit_untrimmed(name) == SubSeq(name, 1, Len(name) - 3)

\* fn_name!() : the no-argument arm, applied to the marker's type name.
fn_name_implicit(name) ==
    LET stripped == SubSeq(name, 1, Len(name) - 3)
    IN  trim_end_matches(stripped, ClosureSeg)

\* fn_name!($fn) : the explicit arm, applied to the function's type name.
fn_name_explicit(name) ==
    LET has_generic == Len(name) > 0 /\ name[Len(name)] = ">"
    IN  IF has_generic THEN trim_generic(name, FALSE) ELSE name

-----------------------------------------------------------------------------
(* Build configurations.  A crate with instrumented methods does not       *)
(* compile with cfg(test) and without debug_assertions (compile_error!),   *)
(* which leaves three.                                                     *)

Builds == {"test", "debug", "release"}

\* A mutant of cfg_test: the call-site macros gated like the registry.
cfg_test_as_debug(b) == b \in {"test", "debug"}

cfg_test(b) == b = "test"

\* A mutant of debug_assertions: the real mapping compiled into every build.
debug_assertions_always(b) == TRUE

debug_assertions(b) == b \in {"test", "debug"}

-----------------------------------------------------------------------------
(* Values, producers and the type-erased StubbyFunction.                   *)

NoVal == [ty |-> "none", val |-> 0]
NoMsg == [text |-> "", name |-> <<>>]
NotInTests == [text |-> "should not have stubs being used outside of #[cfg(test)]",
               name |-> <<>>]

\* Objects handed to insert (Clone + Send + Sync).
Objects == {[ty |-> "u32", val |-> 1], [ty |-> "u32", val |-> 2],
            [ty |-> "i32", val |-> 1]}

\* Producers handed to insert_with: `producer` returns the non-Clone unit
\* struct; `counter` is a closure over a shared atomic that returns the
\* number of times it has been called.
Producers == {"producer", "counter"}
Types == {"u32", "i32", "NotClone"}

ProducerType(p) == IF p = "counter" THEN "u32" ELSE "NotClone"
ProducerValue(p, c) == IF p = "counter" THEN c + 1 ELSE 0
ProducerCount(p, c) == IF p = "counter" THEN c + 1 ELSE c

cloneable_into_stubby_function(obj) ==
    [kind |-> "clone", ty |-> obj.ty, val |-> obj.val, prod |-> "none"]

\* A mutant of producer_into_stubby_function: calls the producer once, at
\* insertion, and keeps the result.
producer_called_once(p) ==
    [kind |-> "clone", ty |-> ProducerType(p), val |-> ProducerValue(p, 0),
     prod |-> "none"]

\* Box::new(move || Box::new(func())) of insert_with.
producer_into_stubby_function(p) ==
    [kind |-> "producer", ty |-> "none", val |-> 0, prod |-> p]

\* Calling a StubbyFunction: the Box<dyn Any> it returns.
stubby_fn_call(fn, c) ==
    IF fn.kind = "clone" THEN [ty |-> fn.ty, val |-> fn.val]
    ELSE [ty |-> ProducerType(fn.prod), val |-> ProducerValue(fn.prod, c)]

stubby_fn_count(fn, c) ==
    IF fn.kind = "clone" THEN c ELSE ProducerCount(fn.prod, c)

-----------------------------------------------------------------------------
(* The BTreeMap<StubbyName, StubbyFunction>, as its set of entries.        *)

\* A mutant of BTreeMapInsert: keeps an entry already present under `name`.
BTreeMapInsertIfAbsent(m, name, fn) ==
    IF \E e \in m : e.name = name THEN m
    ELSE m \cup {[name |-> name, fn |-> fn]}

BTreeMapInsert(m, name, fn) ==
    {e \in m : e.name # name} \cup {[name |-> name, fn |-> fn]}

BTreeMapGet(m, name) == {e \in m : e.name = name}

\* A mutant of StubbyStateDefault: the source registry's entries copied.
StubbyStateCopy(m) == m

\* StubbyState::default(), which clone returns whatever `m` it is called on.
StubbyStateDefault(m) == {}

-----------------------------------------------------------------------------
(* StubbyState::get, as the outcome it produces.                           *)

\* A mutant of downcast: a mismatch reported as a miss.
downcast_or_none(boxed, T, name) ==
    IF boxed.ty = T THEN [outcome |-> "Some", val |-> boxed, msg |-> NoMsg]
    ELSE [outcome |-> "None", val |-> NoVal, msg |-> NoMsg]

downcast(boxed, T, name) ==
    IF boxed.ty = T THEN [outcome |-> "Some", val |-> boxed, msg |-> NoMsg]
    ELSE [outcome |-> "panic", val |-> NoVal,
          msg |-> [text |-> "incorrect type supplied for", name |-> name]]

\* A mutant of get_absent: a missing name is a panic.
get_absent_panics(name) ==
    [outcome |-> "panic", val |-> NoVal,
     msg |-> [text |-> "incorrect type supplied for", name |-> name]]

get_absent(name) == [outcome |-> "None", val |-> NoVal, msg |-> NoMsg]

get(b, m, name, T, c) ==
    IF ~debug_assertions(b)
    THEN [outcome |-> "panic", val |-> NoVal, msg |-> NotInTests]
    ELSE LET found == BTreeMapGet(m, name)
         IN  IF found = {} THEN get_absent(name)
             ELSE downcast(stubby_fn_call((CHOOSE e \in found : TRUE).fn, c), T, name)

get_count(b, m, name, c) ==
    IF ~debug_assertions(b) THEN c
    ELSE LET found == BTreeMapGet(m, name)
         IN  IF found = {} THEN c
             ELSE stubby_fn_count((CHOOSE e \in found : TRUE).fn, c)

-----------------------------------------------------------------------------
(* Comparison traits of StubbyState, and of a struct that embeds one and   *)
(* derives them.                                                           *)

\* A mutant of StubbyStateEq: structural equality of the mappings.
StubbyStateEqStructural(a, b) == a = b

StubbyStateEq(a, b) == TRUE
StubbyStateCmp(a, b) == "Equal"
StubbyStatePartialCmp(a, b) == [some |-> TRUE, ord |-> StubbyStateCmp(a, b)]
\* Hash::hash: the hasher's input after the registry was fed into it.
StubbyStateHash(a, hasher) == hasher

DerivedEq(id1, a, id2, b) == id1 = id2 /\ StubbyStateEq(a, b)
DerivedHash(id, a) == StubbyStateHash(a, <<id>>)

NoCmp == [eq |-> TRUE, cmp |-> "", psome |-> FALSE, pcmp |-> "", h1 |-> <<>>, h2 |-> <<>>,
          deq |-> TRUE, dh1 |-> <<>>, dh2 |-> <<>>]

-----------------------------------------------------------------------------
(* The program under test: registries, instrumented methods, test code.    *)

Regs == {"r1", "r2"}

\* Callables the test code names in fn_name!($fn).
ExplicitRefs == {[path |-> PathSize, targs |-> <<>>],
                 [path |-> PathConv, targs |-> <<TyI32>>],
                 [path |-> PathConv, targs |-> <<TyVecI32>>]}

Names == {fn_name_explicit(type_name_of_fn(c.path, c.targs)) : c \in ExplicitRefs}

\* Instrumented methods: `size` is a plain method using stub_if_found!,
\* `conv` a generic async method using stub!.
Methods == {[path |-> PathSize, depth |-> 0, ret |-> "u32", body |-> 7,
             shape |-> "stub_if_found"],
            [path |-> PathConv, depth |-> 1, ret |-> "u32", body |-> 9,
             shape |-> "stub"]}

Absent == [kind |-> "absent", ty |-> "none", val |-> 0, prod |-> "none", gen |-> 0]

NoOp == [op |-> "none", reg |-> "r1", other |-> "r1", name |-> <<>>,
         T |-> "none", outcome |-> "ok", val |-> NoVal, msg |-> NoMsg,
         lookup |-> "none", k |-> 0, cmp |-> NoCmp]

NmIdle == [path |-> <<>>, targsA |-> <<>>, targsB |-> <<>>, depth |-> 0,
           done |-> {}, explicitA |-> <<>>, explicitB |-> <<>>,
           implicit |-> <<>>]

Init ==
    /\ build \in Builds
    /\ regs = [r \in Regs |-> {}]
    /\ count = 0
    /\ last = NoOp
    /\ latest = [r \in Regs |-> [n \in Names |-> Absent]]
    /\ cloned = {}
    /\ steps = 0
    /\ nm = NmIdle

Running == steps < MaxSteps /\ last.outcome # "panic"

Panic(op, r, name, msg) ==
    [NoOp EXCEPT !.op = op, !.reg = r, !.other = r, !.name = name,
                 !.outcome = "panic", !.msg = msg]

\* StubbyState::insert(name, obj)
Insert(r, name, obj) ==
    /\ Running
    /\ steps' = steps + 1
    /\ IF debug_assertions(build)
       THEN /\ regs' = [regs EXCEPT ![r] =
                 BTreeMapInsert(@, name, cloneable_into_stubby_function(obj))]
            /\ latest' = [latest EXCEPT ![r][name] =
                 [kind |-> "clone", ty |-> obj.ty, val |-> obj.val, prod |-> "none",
                  gen |-> @.gen + 1]]
            /\ last' = [NoOp EXCEPT !.op = "insert", !.reg = r, !.other = r,
                                    !.name = name, !.T = obj.ty]
       ELSE /\ last' = Panic("insert", r, name, NotInTests)
            /\ UNCHANGED <<regs, latest>>
    /\ UNCHANGED <<build, count, cloned, nm>>

\* StubbyState::insert_with(name, func)
InsertWith(r, name, p) ==
    /\ Running
    /\ steps' = steps + 1
    /\ IF debug_assertions(build)
       THEN /\ regs' = [regs EXCEPT ![r] =
                 BTreeMapInsert(@, name, producer_into_stubby_function(p))]
            /\ latest' = [latest EXCEPT ![r][name] =
                 [kind |-> "producer", ty |-> "none", val |-> 0, prod |-> p,
                  gen |-> @.gen + 1]]
            /\ last' = [NoOp EXCEPT !.op = "insert_with", !.reg = r, !.other = r,
                                    !.name = name, !.T = ProducerType(p)]
       ELSE /\ last' = Panic("insert_with", r, name, NotInTests)
            /\ UNCHANGED <<regs, latest>>
    /\ UNCHANGED <<build, count, cloned, nm>>

\* StubbyState::get::<T>(name), called by the test code.
Get(r, name, T) ==
    /\ Running
    /\ steps' = steps + 1
    /\ LET g == get(build, regs[r], name, T, count)
           k == IF last.op = "get" /\ last.reg = r /\ last.name = name
                THEN last.k + 1 ELSE 1
       IN  last' = [NoOp EXCEPT !.op = "get", !.reg = r, !.other = r,
                                !.name = name, !.T = T, !.outcome = g.outcome,
                                !.val = g.val, !.msg = g.msg,
                                !.lookup = g.outcome, !.k = k]
    /\ count' = get_count(build, regs[r], name, count)
    /\ UNCHANGED <<build, regs, latest, cloned, nm>>

\* A call of an instrumented method on a struct embedding registry r: the
\* macro at the top of the method, then (unless it returned) the body.
CallMethod(r, m) ==
    /\ Running
    /\ steps' = steps + 1
    /\ LET name == fn_name_implicit(type_name_of_marker(m.path, m.depth))
           base == [NoOp EXCEPT !.op = "call", !.reg = r, !.other = r,
                                !.name = name, !.T = m.ret]
           real == [base EXCEPT !.outcome = "body",
                                !.val = [ty |-> m.ret, val |-> m.body]]
       IN  IF cfg_test(build)
           THEN LET g == get(build, regs[r], name, m.ret, count)
                    got == [real EXCEPT !.lookup = g.outcome]
                IN  /\ count' = get_count(build, regs[r], name, count)
                    /\ last' =
                         IF g.outcome = "Some"
                         THEN [got EXCEPT !.outcome = "stub", !.val = g.val]
                         ELSE IF g.outcome = "panic"
                         THEN [got EXCEPT !.outcome = "panic", !.val = NoVal,
                                          !.msg = g.msg]
                         ELSE IF m.shape = "stub"
                         THEN [got EXCEPT !.outcome = "panic", !.val = NoVal,
                                          !.msg = [text |-> "no stub configured for",
                                                   name |-> name]]
                         ELSE got
           ELSE /\ last' = real
                /\ count' = count
    /\ UNCHANGED <<build, regs, latest, cloned, nm>>

\* dst = src.clone()
Clone(src, dst) ==
    /\ Running
    /\ src # dst
    /\ steps' = steps + 1
    /\ regs' = [regs EXCEPT ![dst] = StubbyStateDefault(regs[src])]
    /\ latest' = [latest EXCEPT ![dst] = [n \in Names |-> Absent]]
    /\ cloned' = cloned \cup {dst}
    /\ last' = [NoOp EXCEPT !.op = "clone", !.reg = dst, !.other = src]
    /\ UNCHANGED <<build, count, nm>>

\* a == b, a.cmp(b), a.partial_cmp(b), a.hash(h), b.hash(h), and the derived
\* == and hash of two structs with equal other fields embedding a and b.
Compare(a, b) ==
    /\ Running
    /\ a # b
    /\ steps' = steps + 1
    /\ last' = [NoOp EXCEPT !.op = "compare", !.reg = a, !.other = b,
                  !.cmp = [eq |-> StubbyStateEq(regs[a], regs[b]),
                           cmp |-> StubbyStateCmp(regs[a], regs[b]),
                           psome |-> StubbyStatePartialCmp(regs[a], regs[b]).some,
                           pcmp |-> StubbyStatePartialCmp(regs[a], regs[b]).ord,
                           h1 |-> StubbyStateHash(regs[a], <<>>),
                           h2 |-> StubbyStateHash(regs[b], <<>>),
                           deq |-> DerivedEq(5, regs[a], 5, regs[b]),
                           dh1 |-> DerivedHash(5, regs[a]),
                           dh2 |-> DerivedHash(5, regs[b])]]
    /\ UNCHANGED <<build, regs, count, latest, cloned, nm>>

Next ==
    \/ \E r \in Regs, n \in Names, obj \in Objects : Insert(r, n, obj)
    \/ \E r \in Regs, n \in Names, p \in Producers : InsertWith(r, n, p)
    \/ \E r \in Regs, n \in Names, T \in Types : Get(r, n, T)
    \/ \E r \in Regs, m \in Methods : CallMethod(r, m)
    \/ \E src \in Regs, dst \in Regs : Clone(src, dst)
    \/ \E a \in Regs, b \in Regs : Compare(a, b)

Spec == Init /\ [][Next]_vars

-----------------------------------------------------------------------------
(* The name resolver on its own: a callable `path`, referenced from test   *)
(* code as path::<targsA> and path::<targsB> (both empty when the callable *)
(* is not generic), whose body holds fn_name!() `depth` closures deep.     *)

Paths == {PathSize, PathConv, PathF}

ArgLists == UNION {[1..n -> TypeArgs] : n \in 0..MaxArgs}

InitNames ==
    /\ build = "test"
    /\ regs = [r \in Regs |-> {}]
    /\ count = 0
    /\ last = NoOp
    /\ latest = [r \in Regs |-> [n \in Names |-> Absent]]
    /\ cloned = {}
    /\ steps = 0
    /\ \E path \in Paths, a \in ArgLists, b \in ArgLists, depth \in 0..MaxDepth :
         /\ (Len(a) = 0) <=> (Len(b) = 0)
         /\ nm = [NmIdle EXCEPT !.path = path, !.targsA = a, !.targsB = b,
                                !.depth = depth]

\* fn_name!(path::<targsA>) in the test code
ResolveExplicitA ==
    /\ "A" \notin nm.done
    /\ nm' = [nm EXCEPT !.done = @ \cup {"A"},
                !.explicitA = fn_name_explicit(type_name_of_fn(nm.path, nm.targsA))]
    /\ UNCHANGED <<build, regs, count, last, latest, cloned, steps>>

\* fn_name!(path::<targsB>) in the test code
ResolveExplicitB ==
    /\ "B" \notin nm.done
    /\ nm' = [nm EXCEPT !.done = @ \cup {"B"},
                !.explicitB = fn_name_explicit(type_name_of_fn(nm.path, nm.targsB))]
    /\ UNCHANGED <<build, regs, count, last, latest, cloned, steps>>

\* fn_name!() inside the callable's body
ResolveImplicit ==
    /\ "I" \notin nm.done
    /\ nm' = [nm EXCEPT !.done = @ \cup {"I"},
                !.implicit = fn_name_implicit(type_name_of_marker(nm.path, nm.depth))]
    /\ UNCHANGED <<build, regs, count, last, latest, cloned, steps>>

NextNames == ResolveExplicitA \/ ResolveExplicitB \/ ResolveImplicit

SpecNames == InitNames /\ [][NextNames]_vars

-----------------------------------------------------------------------------
(* What the claims are stated over.                                        *)

\* The latest insertion made under the name of the last operation, in the
\* registry of the last operation.
LastLatest == latest[last.reg][last.name]

\* The entries the registry of the last operation holds under its name.
LastEntry == BTreeMapGet(regs[last.reg], last.name)

\* The instrumented method the last call entered.
LastMethod ==
    CHOOSE m \in Methods :
        fn_name_implicit(type_name_of_marker(m.path, m.depth)) = last.name

RealResult(m) == [ty |-> m.ret, val |-> m.body]

\* The type of an inserted object or of a producer's result, and the value a
\* retrieval that just took place had to hand out for it: the object itself,
\* or what the call of the producer made by that retrieval returned.
InsertedType(l) == IF l.kind = "clone" THEN l.ty ELSE ProducerType(l.prod)
InsertedValue(l) ==
    IF l.kind = "clone" THEN [ty |-> l.ty, val |-> l.val]
    ELSE [ty |-> ProducerType(l.prod),
          val |-> ProducerValue(l.prod, count - ProducerCount(l.prod, 0))]

\* Every registry holds exactly the latest insertion made into it under each
\* name, and nothing under a name nothing was inserted under.
RegistryIsLatest ==
    \A r \in Regs :
        regs[r] = {[name |-> n,
                    fn |-> [kind |-> latest[r][n].kind, ty |-> latest[r][n].ty,
                            val |-> latest[r][n].val, prod |-> latest[r][n].prod]] :
                   n \in {x \in Names : latest[r][x].kind # "absent"}}

\* C1: after insert(name, v) every get::<T>(name) with T the type of v returns
\* Some(v), and after insert_with(name, p) every get::<T>(name) with T the
\* type p produces returns Some of what the call of p produced; the entry is
\* still there afterwards, so the k-th get behaves as the first.
C1_RoundTrip ==
    (last.op = "get" /\ LastLatest.kind # "absent"
                     /\ last.T = InsertedType(LastLatest))
        => /\ last.outcome = "Some"
           /\ last.val = InsertedValue(LastLatest)
           /\ LastEntry # {}

C1_Witness ==
    /\ last.op = "get"
    /\ last.k >= 2
    /\ LastLatest.kind = "producer"
    /\ LastLatest.prod = "counter"
    /\ last.outcome = "Some"
    /\ last.val = [ty |-> "u32", val |-> 2]

\* C2: a registry holds at most one entry per name, and a get under a name
\* hands out the most recent insertion made under it (or panics when T is
\* not its type): it never returns an earlier insertion and never None.
C2_LastWriteWins ==
    /\ \A r \in Regs : \A e1 \in regs[r], e2 \in regs[r] :
           e1.name = e2.name => e1 = e2
    /\ (last.op = "get" /\ LastLatest.kind # "absent")
           => IF last.T = InsertedType(LastLatest)
              THEN last.outcome = "Some" /\ last.val = InsertedValue(LastLatest)
              ELSE last.outcome = "panic"

C2_Witness ==
    /\ last.op = "get"
    /\ LastLatest.gen >= 2
    /\ last.outcome = "Some"
    /\ last.val = [ty |-> "u32", val |-> 2]

C4_TypeMismatch ==
    /\ (last.lookup # "none" /\ LastEntry # {}
            /\ \E e \in LastEntry : InsertedType(e.fn) # last.T)
           => /\ last.outcome = "panic"
              /\ last.msg = [text |-> "incorrect type supplied for",
                             name |-> last.name]
    /\ (last.op \in {"insert", "insert_with"} /\ build # "release")
           => last.outcome = "ok"

C4_Witness ==
    /\ last.op = "get"
    /\ last.T = "i32"
    /\ \E e \in LastEntry : e.fn.kind = "clone" /\ e.fn.ty = "u32"
    /\ last.outcome = "panic"
    /\ last.msg.text = "incorrect type supplied for"

\* C5, as claimed: outside a test build every insert, insert_with and get
\* panics with the outside-of-tests message.
C5_PanicsOutsideTestBuild ==
    (build # "test" /\ last.op \in {"insert", "insert_with", "get"})
        => last.outcome = "panic" /\ last.msg = NotInTests

\* C5, amended: insert, insert_with and get panic with the outside-of-tests
\* message exactly in a build without debug_assertions, where no registry
\* ever holds an entry; with debug_assertions, test build or not, they act
\* on the real mapping.
C5_PanicsWithoutDebugAssertions ==
    /\ last.op \in {"insert", "insert_with", "get"}
           => ((build = "release")
                   <=> (last.outcome = "panic" /\ last.msg = NotInTests))
    /\ build = "release" => (\A r \in Regs : regs[r] = {}) /\ count = 0
    /\ (build # "release" /\ last.op \in {"insert", "insert_with"})
           => LastEntry # {}

C5_Witness ==
    /\ build = "release"
    /\ last.op = "insert"
    /\ last.outcome = "panic"
    /\ last.msg = NotInTests

\* C6, as claimed: outside a test build a call runs the body without a
\* lookup; in a test build with an entry under the method's name it returns
\* the stub.
C6_StubWheneverRegistered ==
    last.op = "call" =>
        /\ build # "test"
               => /\ last.outcome = "body"
                  /\ last.val = RealResult(LastMethod)
                  /\ last.lookup = "none"
        /\ (build = "test" /\ LastEntry # {})
               => last.outcome = "stub"

\* C6, amended: outside a test build a call runs the body and returns the
\* real result without a lookup, whatever the registry holds; in a test
\* build with an entry under the method's name that yields the method's
\* return type, both macros return the stub value.
C6_InertOutsideTests ==
    last.op = "call" =>
        /\ build # "test"
               => /\ last.outcome = "body"
                  /\ last.val = RealResult(LastMethod)
                  /\ last.lookup = "none"
        /\ (build = "test" /\ LastEntry # {}
                /\ \A e \in LastEntry : InsertedType(e.fn) = LastMethod.ret)
               => /\ last.outcome = "stub"
                  /\ \A e \in LastEntry : last.val = InsertedValue(e.fn)

C6_Witness ==
    /\ build = "debug"
    /\ last.op = "call"
    /\ \E e \in LastEntry : InsertedType(e.fn) = LastMethod.ret
    /\ last.outcome = "body"
    /\ last.val = RealResult(LastMethod)

\* C7: the explicit names of any two instantiations of a generic callable are
\* equal, and equal to the implicit name taken inside it, which is the
\* callable's own path.
C7_GenericCollapsing ==
    (nm.done = {"A", "B", "I"} /\ Len(nm.targsA) > 0)
        => /\ nm.explicitA = nm.explicitB
           /\ nm.explicitA = nm.implicit
           /\ nm.explicitA = nm.path

\* C8: for a callable referenced without type arguments, the implicit name
\* taken inside it, at its top level or any number of closures deep, is the
\* explicit name: the callable's path, without marker or closure segments.
C8_ImplicitIsExplicit ==
    ({"A", "I"} \subseteq nm.done /\ Len(nm.targsA) = 0)
        => /\ nm.implicit = nm.explicitA
           /\ nm.implicit = nm.path

C8_Witness ==
    /\ {"A", "I"} \subseteq nm.done
    /\ Len(nm.targsA) = 0
    /\ nm.depth = MaxDepth
    /\ nm.depth >= 2
    /\ nm.implicit = nm.explicitA

\* C9, as claimed: each registry holds exactly what was inserted into it
\* since it was created (a clone starts empty, its source is untouched, and
\* insertions do not cross), and a get on a clone under a name nothing was
\* inserted under since returns None.
C9_CloneGetsNone ==
    /\ RegistryIsLatest
    /\ (last.op = "get" /\ last.reg \in cloned /\ LastLatest.kind = "absent")
           => last.outcome = "None"

\* C9, amended: as above, the get returning None in a build with
\* debug_assertions (without them it panics as every get does).
C9_CloneIsEmpty ==
    /\ RegistryIsLatest
    /\ (last.op = "get" /\ last.reg \in cloned /\ LastLatest.kind = "absent"
            /\ build # "release")
           => last.outcome = "None"
    /\ last.op = "clone" => regs[last.reg] = {}

C9_Witness ==
    /\ last.op = "get"
    /\ last.reg = "r2"
    /\ "r2" \in cloned
    /\ "r1" \notin cloned
    /\ latest["r1"][last.name].kind # "absent"
    /\ BTreeMapGet(regs["r1"], last.name) # {}
    /\ last.outcome = "None"

\* C10: any two registries are ==, cmp and partial_cmp give Equal, hashing
\* one feeds the hasher nothing, and two structs that embed them and agree
\* on their other fields are == and hash alike.
C10_AlwaysEqual ==
    last.op = "compare" =>
        /\ last.cmp.eq
        /\ last.cmp.cmp = "Equal"
        /\ last.cmp.psome /\ last.cmp.pcmp = "Equal"
        /\ last.cmp.h1 = <<>> /\ last.cmp.h2 = <<>>
        /\ last.cmp.deq
        /\ last.cmp.dh1 = last.cmp.dh2

C10_Witness ==
    /\ last.op = "compare"
    /\ regs[last.reg] # regs[last.other]
    /\ regs[last.reg] # {}
    /\ regs[last.other] # {}
    /\ last.cmp.eq
    /\ last.cmp.deq

====
